---- MODULE Spec2Model ----
(***************************************************************************)
(* Model of dtw_openmp.c (DTAIDistanceC): the block planner                *)
(* dtw_distances_prepare and the four OpenMP entry points                  *)
(* dtw_distances_{ptrs,ndim_ptrs,matrix,ndim_matrix}_parallel.             *)
(*                                                                         *)
(* One behaviour is one call of an entry point: the sequential prologue    *)
(* (prepare), the parallel-for over the rows of the block with a team of   *)
(* threads, and the sequential epilogue (free, return).                    *)
(***************************************************************************)
EXTENDS Integers, Sequences, FiniteSets, Bags, TLC

(* ------------------------------ bounds -------------------------------- *)

\* Largest number of series for which every block is enumerated.
MaxSeries == 3
\* Largest size of the thread team.
MaxThreads == 2
\* Width of size_t in the model: the arithmetic is modulo 2^SizeBits.  The
\* counts of the model stay far below 2^SizeBits, so the width shows only
\* where block->ce - cb wraps below zero.
SizeBits == 12
\* nb_cols: the length of a row of the matrix (and of a full-length series).
NbCols == 2
\* ndim passed to the two n-dimensional entry points.
Ndim == 2
\* Values 0..MaxClobber are what a planner cell outside its allocation may
\* hold besides the value the planning pass stored there.
MaxClobber == 1

SizeMod == 2 ^ SizeBits

(* ------------------------------ state --------------------------------- *)

VARIABLES
    n,          \* nb_ptrs / nb_rows: the number of series
    block0,     \* the caller's block as it was passed in
    block,      \* the caller's block (prepare writes through the pointer)
    variant,    \* which entry point was called
    nthreads,   \* size of the OpenMP team
    lengths,    \* lengths[i] of the ragged entry points
    ptrs,       \* ptrs[i]: address of series i (ragged entry points)
    pc,         \* "call", "par", "done", "aborted"
    status,     \* what dtw_distances_prepare returned (-1: not returned)
    length,     \* the caller's local `length`
    ret,        \* the value the entry point returned (-1: none)
    cbs, rls,   \* the cells (*cbs)[ir], (*rls)[ir] the planning pass wrote
    cbsCap,     \* entries malloc'ed for cbs (-1: malloc returned NULL)
    rlsCap,     \* entries malloc'ed for rls (-1: malloc returned NULL)
    nextRow,    \* first r_i not yet handed to a thread
    wk,         \* per thread: its chunk and its private r_i, r, c, c_i
    output,     \* the output buffer: index -> value stored
    evals,      \* bag of the pairs <<r, c>> the metric was evaluated for
    wlog,       \* set of the stores made: [idx, r_i, r, c]
    runs,       \* bag of the row indices r_i a thread has started on
    freed,      \* how often free() has been called on cbs and on rls
    nullStore   \* a store through a null planner pointer has happened

vars == <<n, block0, block, variant, nthreads, lengths, ptrs, pc, status,
          length, ret, cbs, rls, cbsCap, rlsCap, nextRow, wk, output, evals,
          wlog, runs, freed, nullStore>>

inputs == <<n, block0, variant, nthreads, lengths, ptrs>>

\* What the prologue and the epilogue of the entry point record.
heap == <<freed, nullStore>>

(* ----------------------------- helpers -------------------------------- *)

Max(a, b) == IF a > b THEN a ELSE b

\* size_t arithmetic
SizeAdd(a, b) == (a + b) % SizeMod
SizeSub(a, b) == (a - b + SizeMod) % SizeMod

Block(rb, re, cb, ce) == [rb |-> rb, re |-> re, cb |-> cb, ce |-> ce]

EmptyFcn == [x \in {} |-> 0]

Variants == {"ptrs", "ndim_ptrs", "matrix", "ndim_matrix"}

IsNdim(v) == v \in {"ndim_ptrs", "ndim_matrix"}
IsPtrs(v) == v \in {"ptrs", "ndim_ptrs"}

\* Channels of one sample in the data of entry point v.
Channels(v) == IF IsNdim(v) THEN Ndim ELSE 1

(* ------------------- external collaborators --------------------------- *)

\* Content of the series memory at address k.
Cell(k) == k + 1

\* The len * ndim values starting at address addr.
Series(addr, len, ndim) == [j \in 1..(len * ndim) |-> Cell(addr + j - 1)]

\* dtw_distance: opaque and deterministic; the value is the term built from
\* exactly what the metric is given.
dtw_distance(s1, l1, s2, l2) ==
    <<"dtw", Series(s1, l1, 1), Series(s2, l2, 1)>>

\* dtw_distance_ndim: as dtw_distance, for ndim interleaved channels.
dtw_distance_ndim(s1, l1, s2, l2, ndim) ==
    <<"dtw_ndim", Series(s1, l1, ndim), Series(s2, l2, ndim), ndim>>

RECURSIVE RegionLengthFrom(_, _, _, _)
RegionLengthFrom(r, re, cb, ce) ==
    IF r >= re THEN 0
    ELSE (LET cs == Max(r + 1, cb) IN IF ce > cs THEN ce - cs ELSE 0)
         + RegionLengthFrom(r + 1, re, cb, ce)

\* dtw_distances_length: the exact number of visited pairs of the block, a
\* zero row end / column end standing for nb_series.
dtw_distances_length(blk, nb_series) ==
    RegionLengthFrom(blk.rb,
                     IF blk.re = 0 THEN nb_series ELSE blk.re,
                     blk.cb,
                     IF blk.ce = 0 THEN nb_series ELSE blk.ce)

(* ---------------------- dtw_distances_prepare ------------------------- *)

\* `if (length == 0)`: length is the address of the caller's local, never
\* null, whatever value len it points to.
LengthPtrIsNull_Deref(len) == len = 0

LengthPtrIsNull(len) == FALSE

\* Correct block
CorrectBlock_KeepsColEnd(blk, nb_series) ==
    [blk EXCEPT !.re = IF blk.re = 0 THEN nb_series ELSE blk.re]

CorrectBlock_DefaultsEmptyRows(blk, nb_series) ==
    [blk EXCEPT !.re = IF blk.re = 0 \/ blk.re <= blk.rb
                       THEN nb_series ELSE blk.re,
                !.ce = IF blk.ce = 0 THEN nb_series ELSE blk.ce]

CorrectBlock(blk, nb_series) ==
    [blk EXCEPT !.re = IF blk.re = 0 THEN nb_series ELSE blk.re,
                !.ce = IF blk.ce = 0 THEN nb_series ELSE blk.ce]

\* The two emptiness checks.
EmptyRegion_ColEndVsRowEnd(blk) == blk.re <= blk.rb \/ blk.ce <= blk.re

EmptyRegion(blk) == blk.re <= blk.rb \/ blk.ce <= blk.cb

\* Entries requested from malloc for cbs and for rls.
AllocEntries(blk) == blk.ce - blk.cb

\* The planning pass: for (r = rb; r < re; r++) { ... }.  Cell ir of the
\* code is element ir + 1 of the sequences.
RECURSIVE PlanLoop(_, _, _, _, _)
PlanLoop(blk, r, rs, cbsAcc, rlsAcc) ==
    IF r < blk.re
    THEN LET cb == IF r + 1 > blk.cb THEN r + 1 ELSE blk.cb
         IN PlanLoop(blk, r + 1, SizeAdd(rs, SizeSub(blk.ce, cb)),
                     Append(cbsAcc, cb), Append(rlsAcc, rs))
    ELSE [cbs |-> cbsAcc, rls |-> rlsAcc, rs |-> rs]

\* The values prepare leaves behind when both allocations succeed.
dtw_distances_prepare(blk, nb_series) ==
    LET len == dtw_distances_length(blk, nb_series)
        b   == CorrectBlock(blk, nb_series)
    IN IF LengthPtrIsNull(len)
       THEN [status |-> 1, block |-> blk, length |-> len,
             cap |-> 0, cbs |-> <<>>, rls |-> <<>>]
       ELSE IF EmptyRegion(b)
       THEN [status |-> 1, block |-> b, length |-> 0,
             cap |-> 0, cbs |-> <<>>, rls |-> <<>>]
       ELSE LET p == PlanLoop(b, b.rb, 0, <<>>, <<>>)
            IN [status |-> 0, block |-> b, length |-> len,
                cap |-> AllocEntries(b), cbs |-> p.cbs, rls |-> p.rls]

\* One cell past the first `cap` of a planner sequence holding a clobber
\* value instead of what the planning pass stored.
Clobbered(planned, cap) ==
    { [planned EXCEPT ![i] = g] :
          i \in {j \in 1..Len(planned) : j > cap}, g \in 0..MaxClobber }

\* What the cells (*cbs)[ir] and (*rls)[ir] can hold after the planning pass
\* when `cap` entries were allocated for each.  A cell inside the allocation
\* holds what was stored.  A store past the allocation is undefined
\* behaviour: the cells read back as stored, or one of them reads back as
\* one of the clobber values.
PlannerOutcomes(pcbs, prls, cap) ==
    {<<pcbs, prls>>}
    \cup {<<s, prls>> : s \in Clobbered(pcbs, cap)}
    \cup {<<pcbs, s>> : s \in Clobbered(prls, cap)}

(* ------------------------- the entry points --------------------------- *)

\* `if (dtw_distances_prepare(...) != 0) return 0;`
PrepareFailed_Negative(st) == st < 0

PrepareFailed(st) == st # 0

\* Number of iterations of the parallel for: block->re - block->rb.
NbRows(blk) == SizeSub(blk.re, blk.rb)

\* The metric call of entry point v for the pair (r, c).
Metric(v, r, c) ==
    CASE v = "ptrs" ->
            dtw_distance(ptrs[r], lengths[r], ptrs[c], lengths[c])
      [] v = "ndim_ptrs" ->
            dtw_distance_ndim(ptrs[r], lengths[r], ptrs[c], lengths[c], Ndim)
      [] v = "matrix" ->
            dtw_distance(r * NbCols, NbCols, c * NbCols, NbCols)
      [] v = "ndim_matrix" ->
            dtw_distance_ndim(r * NbCols * Ndim, NbCols,
                              c * NbCols * Ndim, NbCols, Ndim)

CeilDiv(a, b) == (a + b - 1) \div b

Threads == 1..nthreads

IdleThread == [lo |-> 0, hi |-> 0, act |-> FALSE,
               r_i |-> 0, r |-> 0, c |-> 0, c_i |-> 0]

Idle(w) == wk[w].lo = wk[w].hi /\ ~wk[w].act

(* ------------------------------ inputs -------------------------------- *)

Blocks(k) == [rb : 0..k, re : 0..k, cb : 0..k, ce : 0..k]

\* Inputs beyond MaxSeries: the worked examples of the documentation and
\* blocks whose rows reach past the column end.
ScenarioInputs ==
    { <<4, Block(0, 0, 0, 0)>>, <<4, Block(1, 3, 0, 4)>>,
      <<5, Block(0, 0, 0, 0)>>, <<5, Block(3, 2, 0, 0)>>,
      <<5, Block(2, 5, 0, 3)>>, <<4, Block(0, 4, 3, 4)>> }

CallInputs ==
    { <<k, b>> : k \in 1..MaxSeries, b \in UNION {Blocks(j) : j \in 1..MaxSeries} }

ValidInputs ==
    { in \in CallInputs : in[2] \in Blocks(in[1]) } \cup ScenarioInputs

\* Ragged lengths: every series full length, or the odd ones one shorter.
LengthChoices(k) ==
    { [i \in 0..(k - 1) |-> NbCols],
      [i \in 0..(k - 1) |-> IF i % 2 = 1 THEN NbCols - 1 ELSE NbCols] }

Init ==
    /\ \E in \in ValidInputs : n = in[1] /\ block0 = in[2]
    /\ block = block0
    /\ variant \in Variants
    /\ nthreads \in 1..MaxThreads
    /\ lengths \in (IF IsPtrs(variant) THEN LengthChoices(n)
                    ELSE {[i \in 0..(n - 1) |-> NbCols]})
    /\ ptrs = [i \in 0..(n - 1) |-> i * NbCols * Channels(variant)]
    /\ pc = "call"
    /\ status = -1
    /\ length = 0
    /\ ret = -1
    /\ cbs = <<>>
    /\ rls = <<>>
    /\ cbsCap = 0
    /\ rlsCap = 0
    /\ nextRow = 0
    /\ wk = [w \in 1..nthreads |-> IdleThread]
    /\ output = EmptyFcn
    /\ evals = EmptyBag
    /\ wlog = {}
    /\ runs = EmptyBag
    /\ freed = [cbs |-> 0, rls |-> 0]
    /\ nullStore = FALSE

(* ------------------------------ actions ------------------------------- *)

\* Entry point, prepare fails: return 0.
CallFails ==
    /\ pc = "call"
    /\ LET p == dtw_distances_prepare(block, n)
       IN /\ PrepareFailed(p.status)
          /\ block' = p.block
          /\ status' = p.status
          /\ length' = p.length
          /\ ret' = 0
          /\ pc' = "done"
    /\ UNCHANGED <<inputs, cbs, rls, cbsCap, rlsCap, nextRow, wk, output,
                   evals, wlog, runs, heap>>

\* Entry point, one of the two malloc calls returns NULL.  `!cbs` / `!rls`
\* test the address of the caller's pointer, so prepare goes on to the
\* planning pass, which stores through the null pointer at ir = 0: the
\* process stops there, with nothing freed.  With rls null, (*cbs)[0] has
\* been stored before.
CallAllocFails ==
    /\ pc = "call"
    /\ LET len == dtw_distances_length(block, n)
           b   == CorrectBlock(block, n)
       IN /\ ~LengthPtrIsNull(len)
          /\ ~EmptyRegion(b)
          /\ block' = b
          /\ length' = len
          /\ \E cbsNull \in BOOLEAN :
                /\ cbsCap' = IF cbsNull THEN -1 ELSE AllocEntries(b)
                /\ rlsCap' = IF cbsNull THEN AllocEntries(b) ELSE -1
                /\ cbs' = IF cbsNull THEN <<>>
                          ELSE <<PlanLoop(b, b.rb, 0, <<>>, <<>>).cbs[1]>>
          /\ nullStore' = TRUE
          /\ pc' = "aborted"
    /\ UNCHANGED <<inputs, status, ret, rls, nextRow, wk, output,
                   evals, wlog, runs, freed>>

\* Entry point, prepare succeeds: the team starts on the parallel for.
CallEntersParallel ==
    /\ pc = "call"
    /\ LET p == dtw_distances_prepare(block, n)
       IN /\ ~PrepareFailed(p.status)
          /\ block' = p.block
          /\ status' = p.status
          /\ length' = p.length
          /\ cbsCap' = p.cap
          /\ rlsCap' = p.cap
          /\ \E o \in PlannerOutcomes(p.cbs, p.rls, p.cap) :
                cbs' = o[1] /\ rls' = o[2]
          /\ pc' = "par"
    /\ nextRow' = 0
    /\ UNCHANGED <<inputs, ret, wk, output, evals, wlog, runs, heap>>

\* A thread at the top of the row loop with row r_i of its chunk [r_i, hi):
\* r = block->rb + r_i; c_i = 0; c = cbs[r_i];
AtRow(ri, hi) ==
    [lo |-> ri, hi |-> hi, act |-> TRUE, r_i |-> ri,
     r |-> SizeAdd(block.rb, ri), c |-> cbs[ri + 1], c_i |-> 0]

\* The first unassigned row after a chunk of k rows has been handed out.
NextUnassigned(next, k) == next + k

\* What the body of the column loop leaves in <<cbs, rls>>: it reads
\* rls[r_i] and writes output and c_i only.
PlannerAfterStore_BumpsOffset(seqs, ri) ==
    <<seqs[1], [seqs[2] EXCEPT ![ri + 1] = SizeAdd(@, 1)]>>

PlannerAfterStore(seqs, ri) == seqs

\* schedule(guided): an idle thread takes the next chunk of rows, at most
\* the unassigned rows divided by the team size, at least one, and starts
\* on its first row.  The threads of the team run the same code, so of the
\* idle threads it is the one with the lowest number that is served.
Grab(w) ==
    /\ pc = "par"
    /\ Idle(w)
    /\ \A v \in Threads : Idle(v) => w <= v
    /\ nextRow < NbRows(block)
    /\ \E k \in 1..CeilDiv(NbRows(block) - nextRow, nthreads) :
          /\ wk' = [wk EXCEPT ![w] = AtRow(nextRow, nextRow + k)]
          /\ nextRow' = NextUnassigned(nextRow, k)
    /\ runs' = runs (+) SetToBag({nextRow})
    /\ UNCHANGED <<inputs, block, pc, status, length, ret, cbs, rls, cbsCap,
                   rlsCap, output, evals, wlog, heap>>

\* One iteration of the column loop: value = metric(r, c);
\* output[rls[r_i] + c_i] = value; c_i++; c++.
Step(w) ==
    /\ pc = "par"
    /\ wk[w].act
    /\ wk[w].c < block.ce
    /\ LET t     == wk[w]
           value == Metric(variant, t.r, t.c)
           idx   == SizeAdd(rls[t.r_i + 1], t.c_i)
       IN /\ evals' = evals (+) SetToBag({<<t.r, t.c>>})
          /\ output' = (idx :> value) @@ output
          /\ wlog' = wlog \cup {[idx |-> idx, r_i |-> t.r_i,
                                 r |-> t.r, c |-> t.c]}
          /\ wk' = [wk EXCEPT ![w] = [@ EXCEPT !.c_i = t.c_i + 1,
                                               !.c = t.c + 1]]
          /\ cbs' = PlannerAfterStore(<<cbs, rls>>, t.r_i)[1]
          /\ rls' = PlannerAfterStore(<<cbs, rls>>, t.r_i)[2]
    /\ UNCHANGED <<inputs, block, pc, status, length, ret, cbsCap,
                   rlsCap, nextRow, runs, heap>>

\* The column loop ends: on to the next row of the chunk, or back to the
\* scheduler when the chunk is finished.
EndRow(w) ==
    /\ pc = "par"
    /\ wk[w].act
    /\ ~(wk[w].c < block.ce)
    /\ wk' = [wk EXCEPT ![w] =
                IF wk[w].r_i + 1 = wk[w].hi THEN IdleThread
                ELSE AtRow(wk[w].r_i + 1, wk[w].hi)]
    /\ runs' = IF wk[w].r_i + 1 = wk[w].hi THEN runs
               ELSE runs (+) SetToBag({wk[w].r_i + 1})
    /\ UNCHANGED <<inputs, block, pc, status, length, ret, cbs, rls, cbsCap,
                   rlsCap, nextRow, output, evals, wlog, heap>>

\* All rows done (the implicit barrier).
AllRowsDone_NoWait ==
    /\ pc = "par"
    /\ nextRow = NbRows(block)

AllRowsDone ==
    /\ pc = "par"
    /\ nextRow = NbRows(block)
    /\ \A w \in Threads : Idle(w)

\* The planning pass stored past the end of an allocation.
HeapOverflow == Len(cbs) > cbsCap \/ Len(rls) > rlsCap

\* free(cbs); free(rls); return length;
FreeAndReturn ==
    /\ AllRowsDone
    /\ freed' = [cbs |-> freed.cbs + 1, rls |-> freed.rls + 1]
    /\ ret' = length
    /\ pc' = "done"
    /\ UNCHANGED <<inputs, block, status, length, cbs, rls, cbsCap, rlsCap,
                   nextRow, wk, output, evals, wlog, runs, nullStore>>

\* free() on a heap whose bookkeeping the planning pass has overwritten:
\* the allocator may stop the process, in free(cbs) or in free(rls).
FreeAborts ==
    /\ AllRowsDone
    /\ HeapOverflow
    /\ \E k \in {0, 1} : freed' = [cbs |-> freed.cbs + k, rls |-> freed.rls]
    /\ pc' = "aborted"
    /\ UNCHANGED <<inputs, block, status, length, ret, cbs, rls, cbsCap,
                   rlsCap, nextRow, wk, output, evals, wlog, runs, nullStore>>

Next ==
    \/ CallFails
    \/ CallAllocFails
    \/ CallEntersParallel
    \/ \E w \in Threads : Grab(w)
    \/ \E w \in Threads : Step(w)
    \/ \E w \in Threads : EndRow(w)
    \/ FreeAndReturn
    \/ FreeAborts

Spec == Init /\ [][Next]_vars

\* The threads of the team and the sequential code keep running.
FairSpec == Spec /\ WF_vars(Next)

(* ------------------- vocabulary of the properties --------------------- *)

\* The block the caller asked for, zero ends read as "through the end".
Requested ==
    Block(block0.rb, IF block0.re = 0 THEN n ELSE block0.re,
          block0.cb, IF block0.ce = 0 THEN n ELSE block0.ce)

\* row_begin < row_end <= N and col_begin < col_end <= N
ValidRegion(b) ==
    b.rb < b.re /\ b.re <= n /\ b.cb < b.ce /\ b.ce <= n

\* col_start(r) = max(r + 1, col_begin)
ColStart(b, r) == Max(r + 1, b.cb)

\* The pairs of the block in the strict upper triangle.
RegionPairs(b) ==
    {p \in (b.rb..(b.re - 1)) \X (0..(b.ce - 1)) : ColStart(b, p[1]) <= p[2]}

\* row_offset(r): the pairs visited by the rows before r.
RowOffset(b, r) == Cardinality({p \in RegionPairs(b) : p[1] < r})

\* The slot of pair p in the row-major, increasing-column layout.
Slot(b, p) == RowOffset(b, p[1]) + (p[2] - ColStart(b, p[1]))

\* The buffer a run of entry point v in row order leaves behind.
LayoutOutput(v, b) ==
    [i \in {Slot(b, p) : p \in RegionPairs(b)} |->
        LET p == CHOOSE q \in RegionPairs(b) : Slot(b, q) = i
        IN Metric(v, p[1], p[2])]

Returned == pc = "done"

(* ------------------------------ C1 ------------------------------------ *)

C2_EachPairOnce ==
    (Returned /\ ValidRegion(Requested))
        => /\ \A p \in (0..n) \X (0..n) :
                CopiesIn(p, evals) = IF p \in RegionPairs(Requested) THEN 1 ELSE 0
           /\ BagToSet(evals) \subseteq (0..n) \X (0..n)
           /\ {<<e.r, e.c>> : e \in wlog} = RegionPairs(Requested)

\* The same for the calls whose planning pass stayed inside its allocations.
C2_InsideAllocation ==
    (Returned /\ ValidRegion(Requested) /\ ~HeapOverflow)
        => /\ \A p \in (0..n) \X (0..n) :
                CopiesIn(p, evals) = IF p \in RegionPairs(Requested) THEN 1 ELSE 0
           /\ {<<e.r, e.c>> : e \in wlog} = RegionPairs(Requested)

(* ------------------------------ C3 ------------------------------------ *)

\* C3: in every state of the parallel phase, for every team size and every
\* interleaving, no output index has been written by two different rows.
C3_OneWriterPerSlot ==
    \A e1 \in wlog : \A e2 \in wlog : e1.idx = e2.idx => e1.r_i = e2.r_i

\* The same for the calls whose planning pass stayed inside its allocations.
C3_InsideAllocation ==
    ~HeapOverflow => C3_OneWriterPerSlot

(* ------------------------------ C4 ------------------------------------ *)

\* C4: for a given block, series and entry point, the buffer and the length
\* a call leaves behind are those of the run in row order, whatever the team
\* size and whatever the order in which the rows were taken and finished.
C4_SameResultEveryRun ==
    (Returned /\ ValidRegion(Requested))
        => /\ output = LayoutOutput(variant, Requested)
           /\ ret = Cardinality(DOMAIN LayoutOutput(variant, Requested))

\* The same for the calls whose planning pass stayed inside its allocations.
C4_InsideAllocation ==
    (Returned /\ ValidRegion(Requested) /\ ~HeapOverflow)
        => /\ output = LayoutOutput(variant, Requested)
           /\ ret = Cardinality(DOMAIN LayoutOutput(variant, Requested))

(* ------------------------------ C5 ------------------------------------ *)

\* What the caller gets back from the successful call on one series and the
\* full region: a success of length 0.
SuccessOfLengthZero ==
    LET p == dtw_distances_prepare(Block(0, 0, 0, 0), 1)
    IN IF PrepareFailed(p.status) THEN -1 ELSE p.length

\* C5: when the region is empty after defaulting, the length is reported as
\* 0 and what the caller receives differs from what a successful call of
\* length 0 returns.
C5_EmptyRegionDistinguishable ==
    (Returned /\ EmptyRegion(Requested))
        => length = 0 /\ ret # SuccessOfLengthZero

\* What the code does do on an empty region: length 0, return value 0.
C5_EmptyRegionReturnsZero ==
    (Returned /\ EmptyRegion(Requested)) => length = 0 /\ ret = 0

(* ------------------------------ C6 ------------------------------------ *)

\* C6: when prepare reports a failure the entry point has returned 0 and no
\* thread has taken a row, evaluated the metric or written the buffer.
C6_FailureLeavesOutputUntouched ==
    (status # -1 /\ status # 0)
        => /\ pc = "done" /\ ret = 0
           /\ nextRow = 0 /\ \A w \in Threads : wk[w] = IdleThread
           /\ evals = EmptyBag /\ wlog = {} /\ output = EmptyFcn

C6_Witness ==
    Returned /\ status = 1 /\ ret = 0 /\ block0 = Block(1, 1, 0, 0)

(* ------------------------------ C7 ------------------------------------ *)

\* C7: prepare replaces row_end by N exactly when it is 0 and col_end by N
\* exactly when it is 0, leaves the begins alone, and then rejects the block
\* exactly when it is empty; (0,0,0,0) with N = 5 becomes (0,5,0,5) and is
\* accepted, (3,2,0,0) is rejected.
C7_Normalization ==
    pc # "call"
        => /\ block.rb = block0.rb /\ block.cb = block0.cb
           /\ block.re = (IF block0.re = 0 THEN n ELSE block0.re)
           /\ block.ce = (IF block0.ce = 0 THEN n ELSE block0.ce)
           /\ (status = 1) = (block.re <= block.rb \/ block.ce <= block.cb)
           /\ (n = 5 /\ block0 = Block(0, 0, 0, 0))
                => block = Block(0, 5, 0, 5) /\ status # 1
           /\ block0 = Block(3, 2, 0, 0) => status = 1

C7_Witness ==
    /\ pc = "par" /\ n = 5 /\ block0 = Block(0, 0, 0, 0)
    /\ block = Block(0, 5, 0, 5) /\ status = 0

(* ------------------------------ C8 ------------------------------------ *)

\* C8: the result for pair (r, c) is stored at index
\* row_offset(r) + (c - col_start(r)).
C8_RowMajorLayout ==
    ValidRegion(Requested)
        => \A e \in wlog : e.idx = Slot(Requested, <<e.r, e.c>>)

\* The two worked examples: N = 4 with the full region, and block (1,3,0,4).
C8_Examples ==
    /\ (Returned /\ n = 4 /\ block0 = Block(0, 0, 0, 0))
          => /\ {<<e.r, e.c, e.idx>> : e \in wlog} =
                   { <<0, 1, 0>>, <<0, 2, 1>>, <<0, 3, 2>>,
                     <<1, 2, 3>>, <<1, 3, 4>>, <<2, 3, 5>> }
             /\ ret = 6
    /\ (Returned /\ n = 4 /\ block0 = Block(1, 3, 0, 4))
          => /\ {<<e.r, e.c, e.idx>> : e \in wlog} =
                   { <<1, 2, 0>>, <<1, 3, 1>>, <<2, 3, 2>> }
             /\ ret = 3

(* ------------------------------ C9 ------------------------------------ *)

\* Every ragged series has length nb_cols (and ptrs[i] is row i).
FullLengthSeries == \A i \in 0..(n - 1) : lengths[i] = NbCols

OtherRepresentation(v) ==
    CASE v = "ptrs" -> "matrix"
      [] v = "matrix" -> "ptrs"
      [] v = "ndim_ptrs" -> "ndim_matrix"
      [] v = "ndim_matrix" -> "ndim_ptrs"

\* C9: on identical series data the ragged and the contiguous single-channel
\* entry points return the same length and leave the same buffer: what one
\* leaves is what the other computes for every index.
C9_PtrsAndMatrixAgree ==
    (Returned /\ ValidRegion(Requested) /\ FullLengthSeries
              /\ variant \in {"ptrs", "matrix"})
        => /\ output = LayoutOutput(OtherRepresentation(variant), Requested)
           /\ ret = Cardinality(RegionPairs(Requested))

\* The same for the calls whose planning pass stayed inside its allocations.
C9_InsideAllocation ==
    (Returned /\ ValidRegion(Requested) /\ FullLengthSeries
              /\ variant \in {"ptrs", "matrix"} /\ ~HeapOverflow)
        => /\ output = LayoutOutput(OtherRepresentation(variant), Requested)
           /\ ret = Cardinality(RegionPairs(Requested))

(* ------------------------------ C10 ----------------------------------- *)

\* C10: both planner sequences have an entry for every row of the block, so
\* every index the planning pass writes and every index a thread reads lies
\* inside the allocation.
C10_PlannerSizedByRows ==
    status = 0
        => /\ \A i \in 1..Len(cbs) : i - 1 < cbsCap
           /\ \A i \in 1..Len(rls) : i - 1 < rlsCap
           /\ \A w \in Threads :
                 wk[w].act => wk[w].r_i < cbsCap /\ wk[w].r_i < rlsCap

(* ------------------------------ C11 ----------------------------------- *)

\* C11: when the allocation of a planner sequence fails, prepare returns a
\* non-zero status with the length set to 0, the sequence that was allocated
\* is released, and nothing is stored through the null pointer.
C11_AllocationFailureReported ==
    (cbsCap = -1 \/ rlsCap = -1)
        => /\ status = 1 /\ length = 0
           /\ ~nullStore
           /\ cbsCap >= 0 => freed.cbs = 1
           /\ rlsCap >= 0 => freed.rls = 1

(* ------------------------------ C12 ----------------------------------- *)

\* C12: a successful call has released each planner sequence exactly once,
\* and a release or the return happens only when every row has been handed
\* out and every thread has finished its rows.
C12_ReleaseAfterEveryRow ==
    /\ freed.cbs <= 1 /\ freed.rls <= 1
    /\ (Returned /\ status = 0) => freed = [cbs |-> 1, rls |-> 1]
    /\ (status = 0 /\ (Returned \/ freed.cbs > 0 \/ freed.rls > 0))
          => /\ nextRow = NbRows(block)
             /\ \A w \in Threads : wk[w] = IdleThread

C12_Witness ==
    /\ Returned /\ status = 0 /\ nthreads = 2
    /\ freed = [cbs |-> 1, rls |-> 1]
    /\ ~HeapOverflow
    /\ Cardinality(wlog) = 3

(* ------------------------------ C13 ----------------------------------- *)

\* Columns row r of block b visits.
Visits(b, r) == Cardinality({p \in RegionPairs(b) : p[1] = r})

\* C13: for every valid block the row offsets the planning pass computes
\* never decrease: the offset of row r + 1 is larger than that of row r when
\* row r visits a column and equal to it when row r visits none.
C13_RowOffsetsNeverDecrease ==
    (status = 0 /\ ValidRegion(Requested))
        => LET off == PlanLoop(block, block.rb, 0, <<>>, <<>>).rls
           IN \A i \in 1..(Len(off) - 1) :
                 IF Visits(block, block.rb + i - 1) > 0
                 THEN off[i + 1] > off[i]
                 ELSE off[i + 1] = off[i]

\* The same up to the first row after the column end: the relation holds
\* between row r and row r + 1 whenever r + 1 <= col_end.
C13_UpToColumnEnd ==
    (status = 0 /\ ValidRegion(Requested))
        => LET off == PlanLoop(block, block.rb, 0, <<>>, <<>>).rls
           IN \A i \in 1..(Len(off) - 1) :
                 (block.rb + i <= block.ce)
                    => IF Visits(block, block.rb + i - 1) > 0
                       THEN off[i + 1] > off[i]
                       ELSE off[i + 1] = off[i]

(* ------------------------------ C14 ----------------------------------- *)

\* Every row index has been started at most once, and once the team is
\* through, exactly once.
RowsRunOnce ==
    /\ \A ri \in BagToSet(runs) : ri < NbRows(block) /\ CopiesIn(ri, runs) = 1
    /\ (status = 0 /\ pc # "par")
          => BagToSet(runs) = 0..(NbRows(block) - 1)

\* C14: for every team size and every guided assignment each row index is
\* run exactly once, and the call terminates: it never stops short of the
\* return.
C14_EveryRowOnceAndReturns ==
    /\ RowsRunOnce
    /\ pc = "done" \/ ENABLED Next

\* Each row runs exactly once, for every team size and assignment.
C14_EveryRowOnce == RowsRunOnce

\* Every run ends, with the return or with the process stopped.
C14_ReturnsOrStops == <>(pc \in {"done", "aborted"})

(* ------------------------------ C15 ----------------------------------- *)

\* C15: the zero check after the length query never makes prepare return:
\* whatever the length is, 0 included, the block is corrected, the emptiness
\* checks decide the status, and for a non-empty block the allocations are
\* made.
C15_ZeroCheckNeverReturns ==
    pc # "call"
        => /\ block = Requested
           /\ (status = 1) => EmptyRegion(Requested)
           /\ ~EmptyRegion(Requested) => cbsCap # 0 /\ rlsCap # 0

C15_Witness ==
    /\ pc = "par" /\ status = 0 /\ length = 0
    /\ n = 1 /\ block0 = Block(0, 0, 0, 0) /\ block = Block(0, 1, 0, 1)
    /\ cbsCap = 1 /\ rlsCap = 1

(* ------------------------------ C16 ----------------------------------- *)

\* C16: from the start of the parallel phase to its end no step changes the
\* column starts, the row offsets, the block or what the caller passed in.
C16_PlannerReadOnlyInParallelPhase ==
    [][(pc = "par" /\ pc' = "par")
          => /\ cbs' = cbs /\ rls' = rls
             /\ cbsCap' = cbsCap /\ rlsCap' = rlsCap
             /\ block' = block
             /\ length' = length
             /\ inputs' = inputs]_vars

C16_Witness ==
    /\ pc = "par" /\ nthreads = 2
    /\ \A w \in Threads : wk[w].act
    /\ ~HeapOverflow
    /\ cbs = PlanLoop(block, block.rb, 0, <<>>, <<>>).cbs
    /\ rls = PlanLoop(block, block.rb, 0, <<>>, <<>>).rls
    /\ Cardinality(wlog) = 2

(* ------------------------------ C17 ----------------------------------- *)

\* C17: for every valid block every output index written is smaller than
\* the length returned, and a row that writes a slot has as its row offset
\* the number of pairs the earlier rows visit.
C17_StoresBelowLength ==
    ValidRegion(Requested)
        => /\ \A e \in wlog : rls[e.r_i + 1] = RowOffset(Requested, e.r)
           /\ Returned => \A e \in wlog : e.idx < ret

\* The same for the calls whose planning pass stayed inside its allocations.
C17_InsideAllocation ==
    (ValidRegion(Requested) /\ ~HeapOverflow)
        => /\ \A e \in wlog : rls[e.r_i + 1] = RowOffset(Requested, e.r)
           /\ Returned => \A e \in wlog : e.idx < ret

\* A call inside its allocations whose last row offset has wrapped.
C17_WrappedOffsetReached ==
    /\ Returned /\ ~HeapOverflow /\ wlog = {}
    /\ n = 5 /\ block0 = Block(2, 5, 0, 3)
    /\ rls[3] = SizeMod - 1

(* ------------------------------ C18 ----------------------------------- *)

\* C18: a call changes the caller's block only by replacing a zero row end
\* or column end with the number of series, also when the call then fails
\* with an empty region; a second call on the block leaves it as it is.
C18_BlockOnlyDefaulted ==
    /\ block.rb = block0.rb /\ block.cb = block0.cb
    /\ block0.re # 0 => block.re = block0.re
    /\ block0.ce # 0 => block.ce = block0.ce
    /\ block.re \in {block0.re, n} /\ block.ce \in {block0.ce, n}
    /\ (Returned /\ status = 1)
          => /\ block0.re = 0 => block.re = n
             /\ block0.ce = 0 => block.ce = n
    /\ pc # "call" => dtw_distances_prepare(block, n).block = block

C18_Witness ==
    /\ Returned /\ status = 1
    /\ n = 5 /\ block0 = Block(3, 2, 0, 0) /\ block = Block(3, 2, 0, 5)

====
